---- MODULE Spec2Model ----
(***************************************************************************)
(* Model of the thematic impact scoring engine of dreyfus:                 *)
(*   src/src/impact_analysis.py     ImpactAnalyzer                         *)
(*   src/src/sentiment_analysis.py  TextAnalyzer                           *)
(*                                                                         *)
(* Real numbers are kept exact.  A composite score is an integer number of *)
(* 1/ScoreScale units; theme weights and theme scores are fractions        *)
(* [num, den].                                                             *)
(***************************************************************************)
EXTENDS Integers, Sequences, FiniteSets, TLC

VARIABLES backlog_rows, corpus_themes, runs, sentiment_call, frequency_call,
          theme_score_call, extract_call, prepare_call, ingested, pipeline

vars == <<backlog_rows, corpus_themes, runs, sentiment_call, frequency_call,
          theme_score_call, extract_call, prepare_call, ingested, pipeline>>

(***************************************************************************)
(* Bounds                                                                  *)
(***************************************************************************)
MaxBacklog == 2
MaxTexts == 3
MaxCsat == 1
MaxTickets == 1

(***************************************************************************)
(* Outcomes of a call: a returned value or a raised exception.             *)
(***************************************************************************)
NotCalled == [kind |-> "not_called"]

Returned(v) == [kind |-> "returned", value |-> v]

Raised(e) == [kind |-> "raised", exception |-> e]

(***************************************************************************)
(* Generic helpers                                                         *)
(***************************************************************************)
\* all orderings of the elements of a finite set, as sequences
Orderings(S) ==
    {s \in [1..Cardinality(S) -> S] : \A i, j \in DOMAIN s : i # j => s[i] # s[j]}

(***************************************************************************)
(* The development backlog (data/raw/*dev*backlog*.csv)                    *)
(***************************************************************************)
TicketIds == 1..MaxBacklog

\* 'Urgent' stands for any priority string that is not a key of the
\* priority map
Priorities == {"High", "Medium", "Low", "Urgent"}

StoryPoints == {1, 34, 100}

Titles == {"Fix email sync"}

Descriptions == {"Outlook sync is slow on mobile"}

RowFields ==
    [title : Titles, description : Descriptions, priority : Priorities,
     story_points : StoryPoints]

BacklogRow(i, f) ==
    [ticket_id |-> i, title |-> f.title, description |-> f.description,
     priority |-> f.priority, story_points |-> f.story_points]

\* a backlog table: ticket_id is unique, every other column is free
Backlogs ==
    UNION {{{BacklogRow(i, f[i]) : i \in ids} : f \in [ids -> RowFields]} :
           ids \in SUBSET TicketIds}

\* the keys of common_themes the model tracks
Themes == {"email", "mobile"}

(***************************************************************************)
(* ImpactAnalyzer._calculate_impact.  The class body defines the method    *)
(* twice (lines 84 and 161); the second definition rebinds the name, so    *)
(* it is the one analyze_impact calls.                                     *)
(***************************************************************************)
\* one unit of composite_score is 1/1020: 0.6 = 612/1020, 0.4/34 = 12/1020
ScoreScale == 1020

\* a priority map whose default is 0 instead of 1
priority_score_default_zero(priority) ==
    CASE priority = "High" -> 3
      [] priority = "Medium" -> 2
      [] priority = "Low" -> 1
      [] OTHER -> 0

\* {'High': 3, 'Medium': 2, 'Low': 1}.get(dev_item['priority'], 1)
priority_score(priority) ==
    CASE priority = "High" -> 3
      [] priority = "Medium" -> 2
      [] priority = "Low" -> 1
      [] OTHER -> 1

\* (priority_score * 0.6) + (dev_item['story_points'] / 34 * 0.4)
composite_score(dev_item) ==
    priority_score(dev_item.priority) * 612 + dev_item.story_points * 12

\* the score dict built for one row of dev_tickets_df
score_row(dev_item) ==
    [ticket_id |-> dev_item.ticket_id,
     title |-> dev_item.title,
     priority |-> dev_item.priority,
     story_points |-> dev_item.story_points,
     composite_score |-> composite_score(dev_item)]

\* the row orders impact_df.sort_values('composite_score', ascending=False)
\* can produce for a column of keys: the default sort kind is quicksort,
\* which is not stable, so rows with equal keys may come out in any
\* relative order
argsort_descending(keys) ==
    {p \in Orderings(DOMAIN keys) :
        \A i, j \in DOMAIN p : i < j => keys[p[i]] >= keys[p[j]]}

\* a sort that fills every position with the top-ranked row
sort_values_top_row(impact_scores, indexer) ==
    [i \in DOMAIN impact_scores |-> impact_scores[indexer[1]]]

sort_values(impact_scores, indexer) ==
    [i \in DOMAIN impact_scores |-> impact_scores[indexer[i]]]

\* the list of score dicts the loop over dev_tickets_df.iterrows() builds
impact_scores_of(dev_tickets_df) ==
    [i \in DOMAIN dev_tickets_df |-> score_row(dev_tickets_df[i])]

composite_scores_of(dev_tickets_df) ==
    [i \in DOMAIN dev_tickets_df |-> composite_score(dev_tickets_df[i])]

\* the effective _calculate_impact; themes is read from sentiment_results
\* and never used.  It returns the ranked table, except that an empty
\* impact_scores list makes a DataFrame without columns, on which
\* sort_values('composite_score') raises KeyError (re-raised at line 205)
_calculate_impact(dev_tickets_df, sentiment_results, indexer) ==
    LET themes == sentiment_results.themes
        impact_scores == impact_scores_of(dev_tickets_df)
    IN IF impact_scores = <<>>
       THEN Raised("KeyError")
       ELSE Returned(sort_values(impact_scores, indexer))

\* the rows of the table a call returned; none when it raised
rows_of(outcome) == IF outcome.kind = "returned" THEN outcome.value ELSE <<>>

(***************************************************************************)
(* ImpactAnalyzer.analyze_impact: one run over the backlog file, whose     *)
(* rows arrive in the order of the file, and over the feedback corpus, in  *)
(* which text analysis found the themes corpus_themes.  Two runs are       *)
(* modelled, the pair a claim about repeated runs compares.  The sort is   *)
(* a fixed algorithm: on the same column of keys it yields the same row    *)
(* order in every run.                                                     *)
(***************************************************************************)
analyze_impact ==
    /\ Len(runs) < 2
    /\ \E dev_tickets_df \in Orderings(backlog_rows) :
       \E indexer \in argsort_descending(composite_scores_of(dev_tickets_df)) :
          LET sentiment_results == [themes |-> corpus_themes]
          IN /\ \A k \in DOMAIN runs :
                   composite_scores_of(runs[k].dev_tickets_df)
                       = composite_scores_of(dev_tickets_df)
                   => runs[k].indexer = indexer
             /\ runs' = Append(runs,
                   [dev_tickets_df |-> dev_tickets_df,
                    sentiment_results |-> sentiment_results,
                    indexer |-> indexer,
                    outcome |-> _calculate_impact(dev_tickets_df,
                                                  sentiment_results, indexer),
                    impact_df |-> rows_of(_calculate_impact(dev_tickets_df,
                                              sentiment_results, indexer))])
    /\ UNCHANGED <<backlog_rows, corpus_themes, sentiment_call, frequency_call,
                   theme_score_call, extract_call, prepare_call, ingested,
                   pipeline>>

(***************************************************************************)
(* TextAnalyzer._analyze_sentiment                                         *)
(*                                                                         *)
(* An entry of texts is a string of some length or a value that is not a   *)
(* string.  lead: how many whitespace characters the string starts with.   *)
(* blank: text.strip() is empty, that is, lead = length.  malformed: the   *)
(* classifier raises on the string it is given.  label: what the           *)
(* classifier answers otherwise.                                           *)
(***************************************************************************)
MaxLength == 512

TextLengths == {0, 3, MaxLength, MaxLength + 1}

Labels == {"POSITIVE", "NEGATIVE"}

NotAString == [kind |-> "float"]

\* the whitespace a string of the given length starts with: none, all of
\* it, or exactly the part text[:512] keeps
leads_of(length) ==
    {0, length} \cup (IF length > MaxLength THEN {MaxLength} ELSE {})

Strings ==
    {t \in [kind : {"str"}, length : TextLengths, lead : TextLengths,
            blank : BOOLEAN, malformed : BOOLEAN, label : Labels] :
        /\ t.lead \in leads_of(t.length)
        /\ t.blank <=> t.lead = t.length
        /\ t.blank => ~t.malformed /\ t.label = "POSITIVE"}

TextEntries == Strings \cup {NotAString}

TextLists == UNION {[1..n -> TextEntries] : n \in 0..MaxTexts}

\* isinstance(text, str) and text.strip()
is_classifiable(text) == text.kind = "str" /\ ~text.blank

\* the text handed over whole
truncate_none(text) == text

\* text[:512]: the first 512 characters, so at most 512 of the leading
\* whitespace, and all of the text if it is not longer
truncate(text) ==
    LET cut(n) == IF n > MaxLength THEN MaxLength ELSE n
    IN [text EXCEPT !.length = cut(text.length),
                    !.lead = cut(text.lead),
                    !.blank = (cut(text.lead) = cut(text.length))]

\* self.sentiment_analyzer(text)[0]
sentiment_analyzer(text) ==
    IF text.malformed
    THEN Raised("Exception")
    ELSE Returned([label |-> text.label, text |-> text])

\* the for loop of _analyze_sentiment from position i on, with the results
\* appended and the classifier calls made so far; an exception leaves the
\* loop at once
RECURSIVE sentiment_loop(_, _, _, _)
sentiment_loop(texts, i, results, calls) ==
    IF i > Len(texts)
    THEN [raised |-> FALSE, results |-> results, calls |-> calls]
    ELSE IF is_classifiable(texts[i])
         THEN LET arg == truncate(texts[i])
                  sentiment == sentiment_analyzer(arg)
              IN IF sentiment.kind = "raised"
                 THEN [raised |-> TRUE, results |-> results,
                       calls |-> Append(calls, arg)]
                 ELSE sentiment_loop(texts, i + 1,
                                     Append(results, sentiment.value),
                                     Append(calls, arg))
         ELSE sentiment_loop(texts, i + 1, results, calls)

\* the list _analyze_sentiment returns, with the classifier calls it made
_analyze_sentiment(texts) ==
    IF texts = <<>>
    THEN [returned |-> <<>>, calls |-> <<>>]
    ELSE LET run == sentiment_loop(texts, 1, <<>>, <<>>)
         IN IF run.raised
            THEN [returned |-> <<>>, calls |-> run.calls]   \* except: return []
            ELSE [returned |-> run.results, calls |-> run.calls]

\* the method keeps no state between calls, so one call per behaviour
analyze_sentiment ==
    /\ sentiment_call = NotCalled
    /\ \E texts \in TextLists :
          sentiment_call' =
              [kind |-> "returned", texts |-> texts,
               value |-> _analyze_sentiment(texts).returned,
               calls |-> _analyze_sentiment(texts).calls]
    /\ UNCHANGED <<backlog_rows, corpus_themes, runs, frequency_call,
                   theme_score_call, extract_call, prepare_call, ingested,
                   pipeline>>

(***************************************************************************)
(* ImpactAnalyzer._calculate_theme_frequency                               *)
(*                                                                         *)
(* The feedback corpus has n_csat survey texts followed by n_tickets       *)
(* ticket texts, numbered 1..n_csat+n_tickets; tickets_df has n_tickets    *)
(* rows.  sentiment_results['themes'] is either the list of theme names    *)
(* TextAnalyzer.analyze_all returns, or the mapping the method reads:      *)
(* theme -> {'occurrences': records, 'sentiments': one signed score per    *)
(* occurrence}.                                                            *)
(***************************************************************************)
SentimentScores == {-1, 1}

\* the lists of k signed scores
RECURSIVE SentimentLists(_)
SentimentLists(k) ==
    IF k = 0 THEN {<<>>}
    ELSE {Append(s, x) : s \in SentimentLists(k - 1), x \in SentimentScores}

ThemeData(n) ==
    UNION {[occurrences : {occ}, sentiments : SentimentLists(Cardinality(occ))] :
           occ \in SUBSET (1..n)}

\* a dict is modelled as its set of items, one per key
ThemeItem(theme, theme_data) ==
    [theme |-> theme, occurrences |-> theme_data.occurrences,
     sentiments |-> theme_data.sentiments]

ThemeDicts(n) ==
    UNION {{{ThemeItem(theme, f[theme]) : theme \in T} : f \in [T -> ThemeData(n)]} :
           T \in SUBSET Themes}

\* what TextAnalyzer._extract_themes returns: a list of theme names, modelled
\* as the set of its entries, each carrying a name and no data
ThemeLists == {{[theme |-> theme] : theme \in T} : T \in SUBSET Themes}

Keys(dict) == {item.theme : item \in dict}

RECURSIVE SumSeq(_)
SumSeq(s) == IF s = <<>> THEN 0 ELSE Head(s) + SumSeq(Tail(s))

\* 2.0 if np.mean(theme_data['sentiments']) < 0 else 1.0; the mean of an
\* empty list is nan, and nan < 0 is False
sentiment_weight(theme_data) ==
    IF theme_data.sentiments # <<>> /\ SumSeq(theme_data.sentiments) < 0 THEN 2 ELSE 1

\* theme_stats[theme] = frequency * sentiment_weight, as the fraction
\* num/den
theme_weight(theme_data, n_tickets) ==
    [theme |-> theme_data.theme,
     num |-> Cardinality(theme_data.occurrences) * sentiment_weight(theme_data),
     den |-> n_tickets]

_calculate_theme_frequency(n_tickets, sentiment_results) ==
    LET themes == sentiment_results.themes
    IN IF sentiment_results.shape = "list"
       THEN Raised("AttributeError")             \* a list has no items()
       ELSE IF themes = {}
       THEN Returned({})
       ELSE IF n_tickets = 0
       THEN Raised("ZeroDivisionError")          \* ... / len(tickets_df)
       ELSE Returned({theme_weight(theme_data, n_tickets) : theme_data \in themes})

\* the record of one call
frequency_call_of(n_csat, n_tickets, sentiment_results) ==
    [kind |-> "called", n_csat |-> n_csat, n_tickets |-> n_tickets,
     sentiment_results |-> sentiment_results,
     outcome |-> _calculate_theme_frequency(n_tickets, sentiment_results)]

\* the method keeps no state between calls, so one call per behaviour
calculate_theme_frequency ==
    /\ frequency_call = NotCalled
    /\ \E n_csat \in 0..MaxCsat, n_tickets \in 0..MaxTickets :
          \/ \E sentiment_results \in [shape : {"list"}, themes : ThemeLists] :
                frequency_call' =
                    frequency_call_of(n_csat, n_tickets, sentiment_results)
          \/ \E sentiment_results \in
                    [shape : {"dict"}, themes : ThemeDicts(n_csat + n_tickets)] :
                frequency_call' =
                    frequency_call_of(n_csat, n_tickets, sentiment_results)
    /\ UNCHANGED <<backlog_rows, corpus_themes, runs, sentiment_call,
                   theme_score_call, extract_call, prepare_call, ingested,
                   pipeline>>

(***************************************************************************)
(* ImpactAnalyzer._calculate_theme_score                                   *)
(***************************************************************************)
\* self.text_analyzer.extract_themes(item_text): a TextAnalyzer has the
\* attributes sentiment_analyzer, analyze_all, _prepare_csat_text,
\* _prepare_ticket_text, _analyze_sentiment and _extract_themes, and none
\* named extract_themes, so the attribute lookup raises
extract_themes(item_text) == Raised("AttributeError")

\* f"{dev_item['title']} {dev_item.get('description', '')}"
item_text_of(dev_item) == dev_item.title \o " " \o dev_item.description

RECURSIVE SumOver(_, _)
SumOver(S, f) ==
    IF S = {} THEN 0
    ELSE LET x == CHOOSE y \in S : TRUE IN f[x] + SumOver(S \ {x}, f)

MaxOf(S) == CHOOSE x \in S : \A y \in S : y <= x

\* lines 75-82: the weights of the matching themes, summed and divided by
\* the largest weight.  Every weight of theme_stats has the same
\* denominator, so the quotient is a quotient of numerators.
normalized_score(item_themes, theme_stats) ==
    LET nums == [theme \in Themes |->
                    IF theme \in Keys(theme_stats)
                    THEN (CHOOSE item \in theme_stats : item.theme = theme).num
                    ELSE 0]
        theme_score == SumOver(item_themes, nums)
        max_possible_score ==
            IF theme_stats # {}
            THEN MaxOf({item.num : item \in theme_stats})
            ELSE 1
    IN IF max_possible_score > 0
       THEN [num |-> theme_score, den |-> max_possible_score]
       ELSE [num |-> 0, den |-> 1]

_calculate_theme_score(dev_item, theme_stats) ==
    LET item_themes == extract_themes(item_text_of(dev_item))
    IN IF item_themes.kind = "raised"
       THEN item_themes
       ELSE Returned(normalized_score(item_themes.value, theme_stats))

\* called with the statistics _calculate_theme_frequency returned
calculate_theme_score ==
    /\ theme_score_call = NotCalled
    /\ frequency_call.kind = "called"
    /\ frequency_call.outcome.kind = "returned"
    /\ \E dev_item \in backlog_rows :
          theme_score_call' =
              [kind |-> "called", dev_item |-> dev_item,
               theme_stats |-> frequency_call.outcome.value,
               outcome |-> _calculate_theme_score(dev_item,
                                                  frequency_call.outcome.value)]
    /\ UNCHANGED <<backlog_rows, corpus_themes, runs, sentiment_call,
                   frequency_call, extract_call, prepare_call, ingested,
                   pipeline>>

(***************************************************************************)
(* TextAnalyzer._extract_themes                                            *)
(*                                                                         *)
(* A text is the sequence of its characters, so that lower() and the       *)
(* substring test act on what the text holds.                              *)
(***************************************************************************)
\* "EMAIL issue"
EmailUpperText == <<"E", "M", "A", "I", "L", " ", "i", "s", "s", "u", "e">>

\* "email issue"
EmailLowerText == <<"e", "m", "a", "i", "l", " ", "i", "s", "s", "u", "e">>

\* "Happy": holds the keyword 'app' inside a word
HappyText == <<"H", "a", "p", "p", "y">>

\* "Gmail APP": holds a keyword of each theme
GmailAppText == <<"G", "m", "a", "i", "l", " ", "A", "P", "P">>

\* "e mail": no keyword, the blank splits it
SplitText == <<"e", " ", "m", "a", "i", "l">>

\* "iPhone"
PhoneText == <<"i", "P", "h", "o", "n", "e">>

TagStrings ==
    {[kind |-> "str", chars |-> chars] :
        chars \in {<<>>, EmailUpperText, EmailLowerText, HappyText,
                   GmailAppText, SplitText, PhoneText}}

\* an entry of texts that is not a string fails isinstance(text, str)
TagEntries == TagStrings \cup {NotAString}

TagTextLists == UNION {[1..n -> TagEntries] : n \in 0..MaxTexts}

\* the entries of common_themes for the themes the model tracks, in the
\* order of the dict
ThemeOrder == <<"email", "mobile">>

common_themes ==
    [theme \in Themes |->
        IF theme = "email"
        THEN {<<"e", "m", "a", "i", "l">>,
              <<"g", "m", "a", "i", "l">>,
              <<"o", "u", "t", "l", "o", "o", "k">>}
        ELSE {<<"m", "o", "b", "i", "l", "e">>,
              <<"a", "p", "p">>,
              <<"p", "h", "o", "n", "e">>}]

\* str.lower() on one character, for the capitals the texts use
lower_char(c) ==
    CASE c = "A" -> "a"
      [] c = "C" -> "c"
      [] c = "E" -> "e"
      [] c = "G" -> "g"
      [] c = "H" -> "h"
      [] c = "I" -> "i"
      [] c = "L" -> "l"
      [] c = "M" -> "m"
      [] c = "P" -> "p"
      [] OTHER -> c

\* a text taken as it is, without lower()
text_unchanged(chars) == chars

\* text.lower()
text_lower(chars) == [i \in DOMAIN chars |-> lower_char(chars[i])]

\* keyword in text_lower
keyword_in(keyword, chars) ==
    \E i \in 1..(Len(chars) - Len(keyword) + 1) :
        SubSeq(chars, i, i + Len(keyword) - 1) = keyword

\* lines 92-95 for one text and one theme
counts_for(theme, text) ==
    /\ text.kind = "str"
    /\ \E keyword \in common_themes[theme] : keyword_in(keyword, text_lower(text.chars))

\* theme_counts after the loop over texts
theme_counts(texts) ==
    [theme \in Themes |->
        Cardinality({i \in DOMAIN texts : counts_for(theme, texts[i])})]

\* [theme for theme, count in theme_counts.items() if count > 0]
_extract_themes(texts) ==
    LET appears(theme) == theme_counts(texts)[theme] > 0
    IN SelectSeq(ThemeOrder, appears)

\* the method keeps no state between calls, so one call per behaviour
extract_themes_of_texts ==
    /\ extract_call = NotCalled
    /\ \E texts \in TagTextLists :
          extract_call' = [kind |-> "called", texts |-> texts,
                           value |-> _extract_themes(texts)]
    /\ UNCHANGED <<backlog_rows, corpus_themes, runs, sentiment_call,
                   frequency_call, theme_score_call, prepare_call, ingested,
                   pipeline>>

(***************************************************************************)
(* Ingestion of the three input tables                                     *)
(*   DataPreprocessor.process_csat_data, process_ticket_data               *)
(*   DataIngestion.load_dev_tickets                                        *)
(*                                                                         *)
(* A raw file is its header (columns) and its rows in file order.  Dates   *)
(* are day numbers; every file parses as CSV and every date parses.  The   *)
(* output directory is empty before the call.                              *)
(***************************************************************************)
MaxFileRows == 2

\* the raw files of one kind that glob finds, in the order glob lists them
RawFileNames == <<"a.csv", "b.csv">>

\* a text column value: "open" and " Closed"
StatusValues == {<<"o", "p", "e", "n">>, <<" ", "C", "l", "o", "s", "e", "d">>}

Dates == {1, 2}

CsatRequired == {"satisfaction_score", "survey_date"}

\* 3 is on the 1-5 scale, 9 is not
SatisfactionScores == {3, 9}

CsatRows == [survey_date : {1}, satisfaction_score : SatisfactionScores]

TicketRequired == {"ticket_id", "created_date", "status", "category"}

TicketRows == [ticket_id : TicketIds, created_date : Dates, status : StatusValues]

DevTicketRequired ==
    {"ticket_id", "title", "description", "status", "priority", "created_date",
     "target_release_date"}

\* the headers the model draws: the full header, or one required column of
\* it missing
Headers(required, missing) == {required} \cup {required \ {col} : col \in missing}

RowLists(rows) == UNION {[1..n -> rows] : n \in 0..MaxFileRows}

RawFiles(required, missing, rows) ==
    [columns : Headers(required, missing), rows : RowLists(rows)]

RawFileLists(required, missing, rows) ==
    UNION {[1..n -> RawFiles(required, missing, rows)] : n \in 0..Len(RawFileNames)}

\* all(col in df.columns for col in required_cols)
has_required(df, required_cols) == required_cols \subseteq df.columns

RECURSIVE lstrip(_)
lstrip(chars) ==
    IF chars # <<>> /\ Head(chars) = " " THEN lstrip(Tail(chars)) ELSE chars

RECURSIVE rstrip(_)
rstrip(chars) ==
    IF chars # <<>> /\ chars[Len(chars)] = " "
    THEN rstrip(SubSeq(chars, 1, Len(chars) - 1))
    ELSE chars

\* str.strip()
strip(chars) == rstrip(lstrip(chars))

\* the rows drop_duplicates keeps: the first of each group of rows equal on
\* ticket_id (subset=['ticket_id']) or equal on every column
RECURSIVE drop_duplicates(_, _, _)
drop_duplicates(rows, i, subset_ticket_id) ==
    IF i > Len(rows) THEN <<>>
    ELSE LET duplicated ==
                 \E j \in 1..(i - 1) :
                     IF subset_ticket_id
                     THEN rows[j].ticket_id = rows[i].ticket_id
                     ELSE rows[j] = rows[i]
         IN (IF duplicated THEN <<>> ELSE <<rows[i]>>)
            \o drop_duplicates(rows, i + 1, subset_ticket_id)

\* the row orders df.sort_values('created_date') can produce
argsort_ascending(keys) ==
    {p \in Orderings(DOMAIN keys) :
        \A i, j \in DOMAIN p : i < j => keys[p[i]] <= keys[p[j]]}

\* pd.concat(dfs, ignore_index=True)
RECURSIVE concat(_)
concat(dfs) == IF dfs = <<>> THEN <<>> ELSE Head(dfs) \o concat(Tail(dfs))

\* DataPreprocessor._clean_csat_data
_clean_csat_data(df) ==
    IF ~has_required(df, CsatRequired)
    THEN Raised("ValueError")
    ELSE LET between(row) == 1 <= row.satisfaction_score /\ row.satisfaction_score <= 5
         IN Returned(SelectSeq(df.rows, between))

\* lines 131-135 of _clean_ticket_data: the rows before the sort
cleaned_ticket_rows(df) ==
    drop_duplicates(
        [i \in DOMAIN df.rows |->
            [df.rows[i] EXCEPT !.status = strip(text_lower(df.rows[i].status))]],
        1, TRUE)

\* DataPreprocessor._clean_ticket_data
_clean_ticket_data(df, indexer) ==
    IF ~has_required(df, TicketRequired)
    THEN Raised("ValueError")
    ELSE Returned([i \in DOMAIN indexer |-> cleaned_ticket_rows(df)[indexer[i]]])

\* the sort orders open to _clean_ticket_data on one file
sort_choices(df) ==
    IF has_required(df, TicketRequired)
    THEN argsort_ascending([i \in DOMAIN cleaned_ticket_rows(df) |->
                               cleaned_ticket_rows(df)[i].created_date])
    ELSE {<<>>}

\* lines 29-52 and 64-87: the loop over the files, then concat,
\* drop_duplicates and to_csv.  cleaned[i] is the outcome of cleaning file i.
\* reported: the files logged with logger.error; written: the processed
\* file exists; records: its rows, which DataIngestion loads
process_files(files, cleaned) ==
    LET returned(i) == cleaned[i].kind = "returned"
        valid == SelectSeq([i \in DOMAIN files |-> i], returned)
        dfs == [k \in DOMAIN valid |-> cleaned[valid[k]].value]
    IN [reported |-> {RawFileNames[i] : i \in {j \in DOMAIN files : ~returned(j)}},
        written |-> dfs # <<>>,
        records |-> drop_duplicates(concat(dfs), 1, FALSE)]

ingested_of(table, files, result) ==
    [kind |-> "called", table |-> table, files |-> files,
     reported |-> result.reported, written |-> result.written,
     records |-> result.records]

\* one table is ingested per behaviour
process_csat_data ==
    /\ ingested = NotCalled
    /\ \E files \in RawFileLists(CsatRequired, {"survey_date"}, CsatRows) :
          ingested' = ingested_of("csat", files,
              process_files(files, [i \in DOMAIN files |-> _clean_csat_data(files[i])]))
    /\ UNCHANGED <<backlog_rows, corpus_themes, runs, sentiment_call,
                   frequency_call, theme_score_call, extract_call, prepare_call,
                   pipeline>>

process_ticket_data ==
    /\ ingested = NotCalled
    /\ \E files \in RawFileLists(TicketRequired, {"category"}, TicketRows) :
       \E indexers \in [DOMAIN files -> UNION {sort_choices(files[i]) : i \in DOMAIN files}] :
          /\ \A i \in DOMAIN files : indexers[i] \in sort_choices(files[i])
          /\ ingested' = ingested_of("tickets", files,
                process_files(files,
                    [i \in DOMAIN files |-> _clean_ticket_data(files[i], indexers[i])]))
    /\ UNCHANGED <<backlog_rows, corpus_themes, runs, sentiment_call,
                   frequency_call, theme_score_call, extract_call, prepare_call,
                   pipeline>>

\* DataIngestion.load_dev_tickets on the first file glob lists, if any:
\* missing columns are logged with logger.warning and the table is returned
load_dev_tickets ==
    /\ ingested = NotCalled
    /\ \E n \in 0..1 :
       \E files \in [1..n -> [columns : Headers(DevTicketRequired, {"priority", "description"}),
                              rows : UNION {Orderings(B) : B \in Backlogs}]] :
          ingested' = ingested_of("backlog", files,
              [reported |-> {RawFileNames[i] : i \in
                                {j \in DOMAIN files :
                                    ~has_required(files[j], DevTicketRequired)}},
               written |-> FALSE,
               records |-> concat([i \in DOMAIN files |-> files[i].rows])])
    /\ UNCHANGED <<backlog_rows, corpus_themes, runs, sentiment_call,
                   frequency_call, theme_score_call, extract_call, prepare_call,
                   pipeline>>

(***************************************************************************)
(* TextAnalyzer._prepare_csat_text and _prepare_ticket_text                *)
(*                                                                         *)
(* A frame is the text columns it has and its rows; a cell is a string or  *)
(* NaN, the float pandas.read_csv puts in place of an empty cell.          *)
(***************************************************************************)
CsatTextColumns == <<"reason_for_rating", "feature_feedback", "improvement_suggestions">>

TicketTextColumns == <<"subject", "description">>

\* "", "ok", " ok" and NaN
Cells ==
    {[kind |-> "str", chars |-> chars] :
        chars \in {<<>>, <<"o", "k">>, <<" ", "o", "k">>}} \cup {NotAString}

Range(seq) == {seq[i] : i \in DOMAIN seq}

Frames(text_columns, max_rows) ==
    UNION {[columns : {columns}, rows : UNION {[1..n -> [columns -> Cells]] : n \in 0..max_rows}] :
           columns \in SUBSET Range(text_columns)}

\* str(row[col]); str(float('nan')) is 'nan'
str(cell) == IF cell.kind = "str" THEN cell.chars ELSE <<"n", "a", "n">>

\* ' '.join(parts)
RECURSIVE join(_)
join(parts) ==
    IF parts = <<>> THEN <<>>
    ELSE IF Len(parts) = 1 THEN Head(parts)
    ELSE Head(parts) \o <<" ">> \o join(Tail(parts))

\* ' '.join(str(row[col]) for col in text_columns if col in row)
combined_text(row, text_columns) ==
    LET in_row(col) == col \in DOMAIN row
        cols == SelectSeq(text_columns, in_row)
    IN join([k \in DOMAIN cols |-> str(row[cols[k]])])

\* the body shared by the two methods: texts after the loop over
\* df.iterrows(); df.empty is true of a frame without rows
prepare_text(df, text_columns) ==
    LET combined == [i \in DOMAIN df.rows |-> combined_text(df.rows[i], text_columns)]
        not_blank(text) == strip(text) # <<>>
    IN IF df.rows = <<>> THEN <<>> ELSE SelectSeq(combined, not_blank)

_prepare_csat_text(df) == prepare_text(df, CsatTextColumns)

_prepare_ticket_text(df) == prepare_text(df, TicketTextColumns)

\* the methods keep no state between calls, so one call per behaviour
prepare_csat_text ==
    /\ prepare_call = NotCalled
    /\ \E df \in Frames(CsatTextColumns, MaxCsat) :
          prepare_call' = [kind |-> "called", text_columns |-> CsatTextColumns,
                           df |-> df, value |-> _prepare_csat_text(df)]
    /\ UNCHANGED <<backlog_rows, corpus_themes, runs, sentiment_call,
                   frequency_call, theme_score_call, extract_call, ingested,
                   pipeline>>

prepare_ticket_text ==
    /\ prepare_call = NotCalled
    /\ \E df \in Frames(TicketTextColumns, MaxTickets) :
          prepare_call' = [kind |-> "called", text_columns |-> TicketTextColumns,
                           df |-> df, value |-> _prepare_ticket_text(df)]
    /\ UNCHANGED <<backlog_rows, corpus_themes, runs, sentiment_call,
                   frequency_call, theme_score_call, extract_call, ingested,
                   pipeline>>

(***************************************************************************)
(* main.run_pipeline                                                       *)
(*                                                                         *)
(* pc is the position in run_pipeline.  raw says what data/raw holds: for  *)
(* the survey and ticket files whether there is none ("absent"), one       *)
(* without a required column ("invalid") or one that cleans ("valid");     *)
(* for the backlog whether the file is there.  data/output is empty at     *)
(* the start.  classifiers lists the objects for which                     *)
(* pipeline("sentiment-analysis") loaded a model, in load order.  The      *)
(* model loads and the charts render.                                      *)
(***************************************************************************)
Unbound == [kind |-> "unbound"]

None == [kind |-> "None"]

RawStates == {"absent", "invalid", "valid"}

\* what DataIngestion.load_csat_data / load_support_tickets return after
\* preprocessing: the processed file exists only if a raw file cleaned
loaded_frame(raw_state) ==
    IF raw_state = "valid" THEN [kind |-> "DataFrame"] ELSE None

pipeline_unchanged ==
    UNCHANGED <<backlog_rows, corpus_themes, runs, sentiment_call, frequency_call,
                theme_score_call, extract_call, prepare_call, ingested>>

\* lines 19-20: DataPreprocessor().process_all()
run_preprocessing ==
    /\ pipeline.kind = "run"
    /\ pipeline.pc = "start"
    /\ pipeline' = [pipeline EXCEPT !.pc = "preprocessed"]
    /\ pipeline_unchanged

\* lines 24-25: DataIngestion() and get_combined_data()
run_loading ==
    /\ pipeline.kind = "run"
    /\ pipeline.pc = "preprocessed"
    /\ \E dev_tickets_df \in Orderings(backlog_rows) :
          pipeline' = [pipeline EXCEPT
              !.pc = "loaded",
              !.csat_df = loaded_frame(pipeline.raw.csat),
              !.tickets_df = loaded_frame(pipeline.raw.tickets),
              !.dev_tickets_df =
                  IF pipeline.raw.backlog = "present"
                  THEN [kind |-> "DataFrame", rows |-> dev_tickets_df]
                  ELSE None]
    /\ pipeline_unchanged

\* line 29: analyzer = TextAnalyzer(), whose __init__ loads the model
run_text_analyzer ==
    /\ pipeline.kind = "run"
    /\ pipeline.pc = "loaded"
    /\ pipeline' = [pipeline EXCEPT
          !.pc = "text_analyzer",
          !.classifiers = Append(@, "analyzer")]
    /\ pipeline_unchanged

\* line 30: analyzer.analyze_all(csat_df, tickets_df); df.empty on None
\* raises AttributeError, which run_pipeline logs and re-raises
run_analyze_all ==
    /\ pipeline.kind = "run"
    /\ pipeline.pc = "text_analyzer"
    /\ pipeline' = [pipeline EXCEPT
          !.pc = IF pipeline.csat_df = None \/ pipeline.tickets_df = None
                 THEN "failed"
                 ELSE "analyzed"]
    /\ pipeline_unchanged

\* line 34: impact_analyzer = ImpactAnalyzer(), whose __init__ makes a
\* TextAnalyzer of its own
run_impact_analyzer ==
    /\ pipeline.kind = "run"
    /\ pipeline.pc = "analyzed"
    /\ pipeline' = [pipeline EXCEPT
          !.pc = "impact_analyzer",
          !.classifiers = Append(@, "impact_analyzer.text_analyzer")]
    /\ pipeline_unchanged

\* line 35: dev_tickets_df['target_release_date'] raises TypeError on None;
\* otherwise analyze_impact returns the ranked table or raises
run_analyze_impact ==
    /\ pipeline.kind = "run"
    /\ pipeline.pc = "impact_analyzer"
    /\ IF pipeline.dev_tickets_df = None
       THEN pipeline' = [pipeline EXCEPT
               !.pc = "failed", !.impact_metrics = Raised("TypeError")]
       ELSE \E indexer \in argsort_descending(
                              composite_scores_of(pipeline.dev_tickets_df.rows)) :
               LET impact_metrics ==
                       _calculate_impact(pipeline.dev_tickets_df.rows,
                                         [themes |-> corpus_themes], indexer)
               IN pipeline' = [pipeline EXCEPT
                      !.pc = IF impact_metrics.kind = "raised"
                             THEN "failed" ELSE "impact",
                      !.impact_metrics = impact_metrics]
    /\ pipeline_unchanged

\* lines 39-40: DevelopmentVisualizer().create_visualizations(), which makes
\* another ImpactAnalyzer (visualise.py:47)
run_visualizations ==
    /\ pipeline.kind = "run"
    /\ pipeline.pc = "impact"
    /\ pipeline' = [pipeline EXCEPT
          !.pc = "done",
          !.classifiers = Append(@, "visualizer.impact_analyzer.text_analyzer")]
    /\ pipeline_unchanged

Init ==
    /\ backlog_rows \in Backlogs
    /\ corpus_themes \in SUBSET Themes
    /\ runs = <<>>
    /\ sentiment_call = NotCalled
    /\ frequency_call = NotCalled
    /\ theme_score_call = NotCalled
    /\ extract_call = NotCalled
    /\ prepare_call = NotCalled
    /\ ingested = NotCalled
    /\ pipeline = NotCalled

Next == analyze_impact

Spec == Init /\ [][Next]_vars

InitIdle ==
    /\ backlog_rows = {}
    /\ corpus_themes = {}
    /\ runs = <<>>
    /\ sentiment_call = NotCalled
    /\ frequency_call = NotCalled
    /\ theme_score_call = NotCalled
    /\ extract_call = NotCalled
    /\ prepare_call = NotCalled
    /\ ingested = NotCalled
    /\ pipeline = NotCalled

NextSentiment == analyze_sentiment

SpecSentiment == InitIdle /\ [][NextSentiment]_vars

NextTagging == extract_themes_of_texts

SpecTagging == InitIdle /\ [][NextTagging]_vars

NextIngestion == process_csat_data \/ process_ticket_data \/ load_dev_tickets

SpecIngestion == InitIdle /\ [][NextIngestion]_vars

NextNormalize == prepare_csat_text \/ prepare_ticket_text

SpecNormalize == InitIdle /\ [][NextNormalize]_vars

InitPipeline ==
    /\ backlog_rows \in Backlogs
    /\ corpus_themes = {}
    /\ runs = <<>>
    /\ sentiment_call = NotCalled
    /\ frequency_call = NotCalled
    /\ theme_score_call = NotCalled
    /\ extract_call = NotCalled
    /\ prepare_call = NotCalled
    /\ ingested = NotCalled
    /\ \E csat \in RawStates, tickets \in RawStates, backlog \in {"absent", "present"} :
          /\ backlog = "absent" => backlog_rows = {}
          /\ pipeline = [kind |-> "run", pc |-> "start",
                         raw |-> [csat |-> csat, tickets |-> tickets, backlog |-> backlog],
                         csat_df |-> Unbound, tickets_df |-> Unbound,
                         dev_tickets_df |-> Unbound, classifiers |-> <<>>,
                         impact_metrics |-> Unbound]

NextPipeline ==
    \/ run_preprocessing
    \/ run_loading
    \/ run_text_analyzer
    \/ run_analyze_all
    \/ run_impact_analyzer
    \/ run_analyze_impact
    \/ run_visualizations

SpecPipeline == InitPipeline /\ [][NextPipeline]_vars

InitThemes ==
    /\ backlog_rows \in {B \in Backlogs : \A row \in B : row.ticket_id = 1}
    /\ corpus_themes = {}
    /\ runs = <<>>
    /\ sentiment_call = NotCalled
    /\ frequency_call = NotCalled
    /\ theme_score_call = NotCalled
    /\ extract_call = NotCalled
    /\ prepare_call = NotCalled
    /\ ingested = NotCalled
    /\ pipeline = NotCalled

NextThemes == calculate_theme_frequency \/ calculate_theme_score

SpecThemes == InitThemes /\ [][NextThemes]_vars

(***************************************************************************)
(* Claims about the ranked table (checked under Spec)                      *)
(***************************************************************************)
RankedTables == {runs[k].impact_df : k \in DOMAIN runs}

\* C1: every row of a ranked table returned by analyze_impact has its
\* composite_score in [0,1], whatever its priority and story_points.
C1_CompositeScoreInUnitInterval ==
    \A t \in RankedTables : \A i \in DOMAIN t :
        /\ 0 <= t[i].composite_score
        /\ t[i].composite_score <= ScoreScale

\* the priority rank of the theme-aware formula: High 3, Medium 2, Low 1
priority_rank(priority) ==
    CASE priority = "High" -> 3
      [] priority = "Medium" -> 2
      [] OTHER -> 1

\* C2: the composite score is priority_rank/3*0.4 + effort*0.3 + theme*0.3;
\* against empty theme statistics the theme term is 0, so a row with
\* story_points <= 34 scores priority_rank/3*0.4 + story_points/34*0.3
\* (136 and 9 units of 1/1020), and a High row of 34 points scores 0.7.
C2_ThemeAwareFormula ==
    \A k \in DOMAIN runs :
        runs[k].sentiment_results.themes = {} =>
            \A i \in DOMAIN runs[k].impact_df :
                LET row == runs[k].impact_df[i]
                IN row.story_points <= 34 =>
                      row.composite_score =
                          priority_rank(row.priority) * 136 + row.story_points * 9

\* C3: a ranked table is ordered by composite_score descending, and rows
\* with equal composite_score are in ascending order of ticket_id.
C3_RankedWithTieBreak ==
    \A t \in RankedTables : \A i, j \in DOMAIN t :
        i < j =>
            \/ t[i].composite_score > t[j].composite_score
            \/ /\ t[i].composite_score = t[j].composite_score
               /\ t[i].ticket_id < t[j].ticket_id

\* C4: two runs over the same backlog rows and the same corpus return the
\* same sequence of ticket ids with the same scores, whatever the order in
\* which the backlog rows were presented.
C4_OrderIndependent ==
    \A a, b \in DOMAIN runs : runs[a].impact_df = runs[b].impact_df

\* C7: story points are clamped at 34, so two rows of one table that differ
\* only in story_points 34 and 100 have the same composite score.
C7_EffortClamped ==
    \A t \in RankedTables : \A i, j \in DOMAIN t :
        (/\ t[i].priority = t[j].priority
         /\ t[i].story_points = 34
         /\ t[j].story_points = 100)
        => t[i].composite_score = t[j].composite_score

(***************************************************************************)
(* Claims about sentiment analysis (checked under SpecSentiment)           *)
(***************************************************************************)
\* C5: when the classifier raises on one text of a batch, the results of
\* every other non-blank text of the batch are still returned.
C5_FailureIsolated ==
    sentiment_call.kind = "returned" =>
        \A i \in DOMAIN sentiment_call.texts :
            LET text == sentiment_call.texts[i]
            IN is_classifiable(text) /\ ~text.malformed =>
                  \E j \in DOMAIN sentiment_call.value :
                      sentiment_call.value[j] = sentiment_analyzer(truncate(text)).value

\* the entries of texts the loop hands to the classifier, in order
Classifiable(texts) == SelectSeq(texts, is_classifiable)

\* C19: every string handed to the classifier has at most 512 characters:
\* a longer text is cut to its first 512 characters, a text of at most 512
\* characters is handed over unchanged.
C19_TruncatedTo512 ==
    sentiment_call.kind = "returned" =>
        \A j \in DOMAIN sentiment_call.calls :
            LET arg == sentiment_call.calls[j]
                text == Classifiable(sentiment_call.texts)[j]
            IN /\ arg.length <= MaxLength
               /\ text.length <= MaxLength => arg = text
               /\ text.length > MaxLength =>
                     /\ arg.length = MaxLength
                     /\ arg.lead = IF text.lead > MaxLength THEN MaxLength ELSE text.lead

\* a text of 513 characters was classified, as a string of 512
C19_Witness ==
    /\ sentiment_call.kind = "returned"
    /\ \E j \in DOMAIN sentiment_call.calls :
          /\ Classifiable(sentiment_call.texts)[j].length = MaxLength + 1
          /\ sentiment_call.calls[j].length = MaxLength

\* C20: the classifier is never invoked on an empty or whitespace-only
\* string or on a value that is not a string; such entries add nothing to
\* the results, so when no classification fails there are as many results
\* as non-blank string entries.
C20_BlankNeverClassified ==
    sentiment_call.kind = "returned" =>
        /\ \A j \in DOMAIN sentiment_call.calls :
              /\ sentiment_call.calls[j].kind = "str"
              /\ ~sentiment_call.calls[j].blank
        /\ (\A j \in DOMAIN sentiment_call.calls : ~sentiment_call.calls[j].malformed)
           => Len(sentiment_call.value) = Len(Classifiable(sentiment_call.texts))

(***************************************************************************)
(* Claims about theme statistics and theme scores (checked under           *)
(* SpecThemes)                                                             *)
(***************************************************************************)
\* C6: the theme component computed for a backlog item is a value in [0,1],
\* for every item and every theme-statistics mapping.
C6_ThemeComponentInUnitInterval ==
    theme_score_call.kind = "called" =>
        /\ theme_score_call.outcome.kind = "returned"
        /\ 0 <= theme_score_call.outcome.value.num
        /\ theme_score_call.outcome.value.num <= theme_score_call.outcome.value.den

\* theme statistics that are empty or whose weights are all zero
Degenerate(theme_stats) == \A item \in theme_stats : item.num = 0

\* C8: with empty theme statistics or all-zero weights, scoring an item
\* does not raise and gives it theme_component = 0.
C8_DegenerateStatsGiveZero ==
    theme_score_call.kind = "called" /\ Degenerate(theme_score_call.theme_stats) =>
        /\ theme_score_call.outcome.kind = "returned"
        /\ theme_score_call.outcome.value.num = 0

\* C9: for every theme with at least one occurrence, the computed weight is
\* (occurrences / records in the combined feedback+ticket corpus) times 2
\* if the mean sentiment of the occurrences is negative, times 1 otherwise.
C9_WeightOverCombinedCorpus ==
    (/\ frequency_call.kind = "called"
     /\ frequency_call.sentiment_results.shape = "dict"
     /\ frequency_call.outcome.kind = "returned")
    => \A theme_data \in frequency_call.sentiment_results.themes :
          LET corpus == frequency_call.n_csat + frequency_call.n_tickets
              factor == IF SumSeq(theme_data.sentiments) < 0 THEN 2 ELSE 1
          IN Cardinality(theme_data.occurrences) >= 1 =>
                \E weight \in frequency_call.outcome.value :
                    /\ weight.theme = theme_data.theme
                    /\ weight.num * corpus
                          = Cardinality(theme_data.occurrences) * factor * weight.den

\* C10: when the record set used as the frequency denominator is empty, the
\* computation of the theme statistics returns (with frequency 0) instead
\* of raising.
C10_TotalOnEmptyDenominator ==
    (/\ frequency_call.kind = "called"
     /\ frequency_call.sentiment_results.shape = "dict"
     /\ frequency_call.n_tickets = 0)
    => /\ frequency_call.outcome.kind = "returned"
       /\ Degenerate(frequency_call.outcome.value)

\* C11: the theme statistics have a key for a theme exactly when at least
\* one corpus record matches the theme; a theme without occurrences has no
\* key (it is not present with weight 0).
C11_ZeroOccurrenceThemesAbsent ==
    (/\ frequency_call.kind = "called"
     /\ frequency_call.outcome.kind = "returned")
    => \A theme \in Themes :
          theme \in Keys(frequency_call.outcome.value)
          <=> \E item \in frequency_call.sentiment_results.themes :
                 /\ item.theme = theme
                 /\ item.occurrences # {}

(***************************************************************************)
(* Claims about the rows of the ranked table (checked under Spec)          *)
(***************************************************************************)
KnownPriorities == {"High", "Medium", "Low"}

dev_item_of(row) ==
    CHOOSE dev_item \in backlog_rows : dev_item.ticket_id = row.ticket_id

\* C14: the relevant_themes of a row of the ranked table are the themes
\* tagged on the item's title + " " + description, the set whose weights
\* make up the item's theme score.
C14_RelevantThemesOfItemText ==
    \A k \in DOMAIN runs : \A i \in DOMAIN runs[k].impact_df :
        LET row == runs[k].impact_df[i]
            item_themes == extract_themes(item_text_of(dev_item_of(row)))
        IN /\ "relevant_themes" \in DOMAIN row
           /\ item_themes.kind = "returned"
           /\ row.relevant_themes = item_themes.value

OutputColumns ==
    {"ticket_id", "title", "priority", "story_points", "theme_score",
     "composite_score", "relevant_themes"}

\* C15: every row of a ranked table returned by analyze_impact carries all
\* of ticket_id, title, priority, story_points, theme_score,
\* composite_score and relevant_themes.
C15_RowCarriesAllColumns ==
    \A t \in RankedTables : \A i \in DOMAIN t : OutputColumns \subseteq DOMAIN t[i]

\* the columns of a backlog row that the score dict copies
identity_of(row) ==
    [ticket_id |-> row.ticket_id, title |-> row.title,
     priority |-> row.priority, story_points |-> row.story_points]

\* C21: the ranked table is a permutation of the backlog: a one-to-one
\* matching of its rows with the backlog rows keeps ticket_id, title,
\* priority and story_points of every row, so that no row is added, dropped
\* or merged.  No table is returned only for a backlog without rows.
C21_RankedTableIsPermutation ==
    \A k \in DOMAIN runs :
        LET dev_tickets_df == runs[k].dev_tickets_df
            impact_df == runs[k].impact_df
        IN IF runs[k].outcome.kind = "returned"
           THEN /\ Len(impact_df) = Len(dev_tickets_df)
                /\ \E p \in Orderings(DOMAIN dev_tickets_df) :
                       \A i \in DOMAIN impact_df :
                           identity_of(impact_df[i])
                               = identity_of(dev_tickets_df[p[i]])
           ELSE dev_tickets_df = <<>>

\* a returned table of several rows whose order differs from the file's
C21_Witness ==
    \E k \in DOMAIN runs :
        /\ runs[k].outcome.kind = "returned"
        /\ Len(runs[k].impact_df) >= 2
        /\ runs[k].impact_df[1].ticket_id # runs[k].dev_tickets_df[1].ticket_id
        /\ \E i, j \in DOMAIN runs[k].impact_df :
               i # j /\ runs[k].impact_df[i].composite_score
                           = runs[k].impact_df[j].composite_score

(***************************************************************************)
(* Claims about theme tagging (checked under SpecTagging)                  *)
(***************************************************************************)
\* a text with every character in lower case
Lowered(text) ==
    IF text.kind = "str"
    THEN [text EXCEPT !.chars = [i \in DOMAIN text.chars |-> lower_char(text.chars[i])]]
    ELSE text

\* C13: a theme is reported exactly when the lowercased form of some text
\* holds one of the theme's keywords as a substring, each theme is reported
\* at most once, and texts that differ only in letter case get the same
\* themes.
C13_CaseInsensitiveTagging ==
    extract_call.kind = "called" =>
        LET texts == extract_call.texts
            value == extract_call.value
        IN /\ \A theme \in Themes :
                 (\E j \in DOMAIN value : value[j] = theme)
                 <=> \E i \in DOMAIN texts :
                        /\ texts[i].kind = "str"
                        /\ \E keyword \in common_themes[theme] :
                              keyword_in(keyword, Lowered(texts[i]).chars)
           /\ \A j, k \in DOMAIN value : j # k => value[j] # value[k]
           /\ value = _extract_themes([i \in DOMAIN texts |-> Lowered(texts[i])])

\* "EMAIL issue" alone was tagged, with the theme email
C13_Witness ==
    /\ extract_call.kind = "called"
    /\ extract_call.texts = <<[kind |-> "str", chars |-> EmailUpperText]>>
    /\ extract_call.value = <<"email">>

(***************************************************************************)
(* Claims about ingestion (checked under SpecIngestion)                    *)
(***************************************************************************)
required_of(table) ==
    CASE table = "csat" -> CsatRequired
      [] table = "tickets" -> TicketRequired
      [] table = "backlog" -> DevTicketRequired

\* the rows of a file, compared on ticket_id for tickets (cleaning rewrites
\* the other columns)
SameRecord(table, a, b) ==
    IF table = "tickets" THEN a.ticket_id = b.ticket_id ELSE a = b

\* C16: for each of the feedback, ticket and backlog tables, a file that
\* lacks a required column is reported and contributes no records
\* downstream: every record passed on comes from a file with all required
\* columns.
C16_MissingColumnsFatal ==
    ingested.kind = "called" =>
        /\ \A i \in DOMAIN ingested.files :
              ~has_required(ingested.files[i], required_of(ingested.table))
              => RawFileNames[i] \in ingested.reported
        /\ \A r \in DOMAIN ingested.records :
              \E i \in DOMAIN ingested.files :
                 /\ has_required(ingested.files[i], required_of(ingested.table))
                 /\ \E q \in DOMAIN ingested.files[i].rows :
                       SameRecord(ingested.table, ingested.files[i].rows[q],
                                  ingested.records[r])

\* C22: the processed ticket table written by process_ticket_data holds
\* each ticket_id at most once, also when the same ticket_id occurs in two
\* raw files with differing field values.
C22_TicketIdUniqueAcrossFiles ==
    (ingested.kind = "called" /\ ingested.table = "tickets" /\ ingested.written)
    => \A i, j \in DOMAIN ingested.records :
          i # j => ingested.records[i].ticket_id # ingested.records[j].ticket_id

(***************************************************************************)
(* Claims about text normalization (checked under SpecNormalize)           *)
(***************************************************************************)
\* the text of the fields of a row that are present (the column exists and
\* the cell is not NaN), joined with one space and trimmed
Normalized(row, text_columns) ==
    LET present(col) == col \in DOMAIN row /\ row[col].kind = "str"
        cols == SelectSeq(text_columns, present)
    IN strip(join([k \in DOMAIN cols |-> row[cols[k]].chars]))

\* C17: the text of a record is the text of its present fields joined with
\* a single space and trimmed, and a record whose text fields are all empty
\* or missing gives the empty string and no entry in the list of texts.
C17_JoinedTrimmedNonEmpty ==
    prepare_call.kind = "called" =>
        LET rows == prepare_call.df.rows
            normalized == [i \in DOMAIN rows |->
                              Normalized(rows[i], prepare_call.text_columns)]
            not_empty(text) == text # <<>>
        IN prepare_call.value = SelectSeq(normalized, not_empty)

(***************************************************************************)
(* Claims about the pipeline run (checked under SpecPipeline)              *)
(***************************************************************************)
\* C18: during one run of run_pipeline the classification model is loaded
\* at most once, and every component that classifies text shares that one
\* instance.
C18_ClassifierLoadedOnce ==
    pipeline.kind = "run" => Len(pipeline.classifiers) <= 1
====
